---- MODULE Spec2Model ----
(***************************************************************************)
(* Model of the resource cache of rhc-osdk-utils (package resourcecache):  *)
(* ObjectCache with its staging store (data), its kind index               *)
(* (resourceTracker), the cache configuration (possibleGVKs,               *)
(* protectedGVKs, StrictGVK, Ordering) and the Kubernetes API server the   *)
(* cache reads from and writes to (store).                                 *)
(*                                                                         *)
(* Every exported method is one action, the application of an operator    *)
(* (CreateResult, UpdateResult, ...) that computes the method's result     *)
(* from the cache, the server and the arguments.  `last` records the most  *)
(* recent call and the error it returned.                                  *)
(***************************************************************************)
EXTENDS Naturals, Integers, Sequences, FiniteSets, TLC

VARIABLES data, resourceTracker, possibleGVKs, protectedGVKs, StrictGVK,
          Ordering, store, last, ext

vars == <<data, resourceTracker, possibleGVKs, protectedGVKs, StrictGVK,
          Ordering, store, last, ext>>

config == <<protectedGVKs, StrictGVK, Ordering>>

----------------------------------------------------------------------------
(* Bounds of the model *)

\* entries staged in one cache
MaxStaged == 2
\* changes made to the API server by other clients
MaxExternal == 1
\* object contents are 0..MaxSpec
MaxSpec == 1

----------------------------------------------------------------------------
(* Values *)

\* the kinds registered in the scheme
Kinds == {"Service", "Deployment"}
\* schema.EmptyObjectKind: what GetKindFromObj returns with an error
EmptyGVK == ""
NamespacedNames == {"a", "b"}
Specs == 0..MaxSpec
UIDs == {"u1", "u2"}

\* a client.Object: its type, metadata name, content and owner reference
Objects == [kind : Kinds \cup {EmptyGVK}, name : NamespacedNames \cup {""},
            spec : Specs, owner : UIDs]

NoObject == [kind |-> EmptyGVK, name |-> "", spec |-> 0, owner |-> "u1"]

SingleIdent == [Provider |-> "single", Type |-> "Service", WriteNow |-> FALSE, Multi |-> FALSE]
MultiIdent == [Provider |-> "multi", Type |-> "Service", WriteNow |-> FALSE, Multi |-> TRUE]
DeployIdent == [Provider |-> "deploy", Type |-> "Deployment", WriteNow |-> FALSE, Multi |-> TRUE]
NowIdent == [Provider |-> "now", Type |-> "Service", WriteNow |-> TRUE, Multi |-> FALSE]

Idents == {SingleIdent, MultiIdent, DeployIdent, NowIdent}

NoIdent == [Provider |-> "", Type |-> EmptyGVK, WriteNow |-> FALSE, Multi |-> FALSE]

DefaultOrdering == <<"*", "Deployment", "Job", "CronJob">>
CustomOrdering == <<"Service", "*", "Deployment">>
\* an Ordering that lists a kind before "*" and leaves the other kinds unlisted
WildcardLastOrdering == <<"Deployment", "*">>
Orderings == {DefaultOrdering, CustomOrdering, WildcardLastOrdering}

\* utils.GetKindFromObj: the kind, and whether the scheme knows the type
GetKindFromObj(kind) == [gvk |-> kind, err |-> kind = EmptyGVK]

\* a map that keeps nothing but the entry set last
MapOnly(m, k, v) == [x \in {k} |-> v]

\* the Go map m with m[k] = v set
MapSet(m, k, v) == [x \in DOMAIN m \cup {k} |-> IF x = k THEN v ELSE m[x]]

MapDel(m, k) == [x \in DOMAIN m \ {k} |-> m[x]]

EmptyMap == [x \in {} |-> 0]

Has(m, k) == k \in DOMAIN m

\* o.data[resourceIdent][nn] exists
Staged(d, ident, nn) == Has(d, ident) /\ Has(d[ident], nn)

Pairs(d) == {p \in Idents \X NamespacedNames : Staged(d, p[1], p[2])}

\* the sequences without repetition of the elements of S
Perms(S) ==
    {f \in [1..Cardinality(S) -> S] : \A i, j \in 1..Cardinality(S) : f[i] = f[j] => i = j}

Call(verb, kind, name, ident, key, ok) ==
    [verb |-> verb, kind |-> kind, name |-> name, ident |-> ident, key |-> key, ok |-> ok]

\* the most recent call: the method, the error it returned ("" for nil), for
\* Reconcile its arguments, and for List its identifier
Rec(op, err) == [op |-> op, err |-> err, owner |-> "", opts |-> {}, ident |-> NoIdent]

----------------------------------------------------------------------------
(* The API server as the client sees it *)

\* client.Get: the stored object, given that it exists
StoreGet(s, kind, nn) ==
    [kind |-> kind, name |-> nn, spec |-> s[kind][nn].spec, owner |-> s[kind][nn].owner]

\* a server that acknowledges a write and drops it
StoreDrops(s, obj) == s

StorePut(s, obj) ==
    [s EXCEPT ![obj.kind] = MapSet(@, obj.name, [spec |-> obj.spec, owner |-> obj.owner])]

----------------------------------------------------------------------------
(* Create *)

\* a Create that registers every kind of the scheme
RegisterAllKinds(possible, kind) == possible \cup Kinds

\* a Create that registers nothing
NoRegistration(possible, kind) == possible

registerGVK(possible, kind) == possible \cup {GetKindFromObj(kind).gvk}

\* a Create that skips the strict-mode check
NoStrictCheck(possible, kind) == ""

\* the strict-mode check that opens Create: the error, "" when it passes
StrictCheck(possible, kind) ==
    IF ~StrictGVK THEN ""
    ELSE IF GetKindFromObj(kind).err THEN "schema"
    ELSE IF kind \notin possible THEN "unregistered"
    ELSE ""

\* a Create that does not look for an existing entry
NeverStaged(d, resourceIdent, nn) == FALSE

\* if _, ok := o.data[resourceIdent][nn]; ok
AlreadyStaged(d, resourceIdent, nn) == Staged(d, resourceIdent, nn)

\* a Create that does not compare the two kinds
NoMismatch(gvk, obGVK) == FALSE

\* if gvk != obGVK
KindMismatch(gvk, obGVK) == gvk # obGVK

\* a copy that loses the content of the object
CopyWithoutContent(object) == [object EXCEPT !.spec = 0]

\* object.DeepCopyObject().(client.Object)
DeepCopyObject(object) == object

\* a read that finds no instance
NeverUpdate(found, readFails) == [update |-> FALSE, err |-> readFails]

\* a read whose errors are dropped
ReadErrorIgnored(found, readFails) == [update |-> found /\ ~readFails, err |-> FALSE]

\* utils.UpdateOrErr: update is (err == nil); NotFound is not returned as an error
UpdateOrErr(found, readFails) ==
    [update |-> found /\ ~readFails, err |-> readFails]

\* a Create that tracks every name of the kind
TrackAllNames(t, gvk, nn) == [t EXCEPT ![gvk] = NamespacedNames]

\* o.resourceTracker[gvk][nn] = true
Track(t, gvk, nn) == [t EXCEPT ![gvk] = @ \cup {nn}]

\* Create(resourceIdent, nn, object) on the cache (d, t, possible) and the server s:
\* the error (or ""), the caller's object after the call, the cache after the call
\* and the client calls made.  `fault` makes the client's Get fail.
CreateResult(d, t, possible, s, resourceIdent, nn, object, fault) ==
    LET strictErr == StrictCheck(possible, object.kind)
        p1 == IF StrictGVK THEN possible ELSE registerGVK(possible, object.kind)
        \* the client cannot read a type its scheme does not know
        readFails == fault \/ object.kind = EmptyGVK
        found == object.kind # EmptyGVK /\ Has(s[object.kind], nn)
        uoe == UpdateOrErr(found, readFails)
        read == IF uoe.update THEN StoreGet(s, object.kind, nn) ELSE object
        gvk == GetKindFromObj(resourceIdent.Type)
        obGVK == GetKindFromObj(read.kind)
        res(err, obj, dd, tt, pp, c) ==
            [err |-> err, obj |-> obj, data |-> dd, tracker |-> tt, possible |-> pp, calls |-> c]
        get == <<Call("get", object.kind, nn, NoIdent, "", ~uoe.err)>>
    IN  IF strictErr # "" THEN res(strictErr, object, d, t, possible, <<>>)
        ELSE IF uoe.err THEN res("read", object, d, t, p1, get)
        ELSE IF AlreadyStaged(d, resourceIdent, nn) THEN res("duplicate", read, d, t, p1, get)
        ELSE IF gvk.err \/ obGVK.err THEN res("schema", read, d, t, p1, get)
        ELSE IF KindMismatch(gvk.gvk, obGVK.gvk) THEN res("mismatch", read, d, t, p1, get)
        ELSE res("", read,
                 MapSet(d, resourceIdent,
                        MapSet(IF Has(d, resourceIdent) THEN d[resourceIdent] ELSE EmptyMap,
                               nn,
                               [Object |-> DeepCopyObject(read), Update |-> uoe.update,
                                Status |-> FALSE, origObject |-> DeepCopyObject(read)])),
                 Track(t, gvk.gvk, nn),
                 p1, get)

Create(resourceIdent, nn, object, fault) ==
    LET r == CreateResult(data, resourceTracker, possibleGVKs, store,
                          resourceIdent, nn, object, fault)
    IN  /\ r.err = "" => Cardinality(Pairs(data)) < MaxStaged
        /\ data' = r.data
        /\ resourceTracker' = r.tracker
        /\ possibleGVKs' = r.possible
        /\ last' = Rec("Create", r.err)
        /\ UNCHANGED <<config, store, ext>>

----------------------------------------------------------------------------
(* Writing one cached resource: Updater.Apply and the Status().Update call *)

\* a caller that goes on after an error
Ignored(ok) == FALSE

\* if err != nil { return err }
Failed(ok) == ~ok

\* an identifier never taken as immediate
NeverWriteNow(ident) == FALSE

\* ResourceIdent.GetWriteNow()
GetWriteNow(ident) == ident.WriteNow

\* an Apply that always calls cl.Update
ApplyAsUpdate(u, obj, s, fault) ==
    IF fault \/ ~Has(s[obj.kind], obj.name)
    THEN [s |-> s, verb |-> "update", ok |-> FALSE]
    ELSE [s |-> StorePut(s, obj), verb |-> "update", ok |-> TRUE]

\* an Apply whose create replaces an instance that exists
CreateReplaces(u, obj, s, fault) ==
    IF ~u /\ obj.name = "" THEN [s |-> s, verb |-> "", ok |-> TRUE]
    ELSE IF fault \/ (u /\ ~Has(s[obj.kind], obj.name))
         THEN [s |-> s, verb |-> IF u THEN "update" ELSE "create", ok |-> FALSE]
    ELSE [s |-> StorePut(s, obj), verb |-> IF u THEN "update" ELSE "create", ok |-> TRUE]

\* an Apply that looks on the server whether to create or to update
ApplyByLookup(u, obj, s, fault) ==
    IF fault THEN [s |-> s, verb |-> "update", ok |-> FALSE]
    ELSE [s |-> StorePut(s, obj),
          verb |-> IF Has(s[obj.kind], obj.name) THEN "update" ELSE "create",
          ok |-> TRUE]

\* Updater.Apply(ctx, cl, obj) on the server s; `fault` makes the client call fail.
\* cl.Update needs the object to exist, cl.Create needs it not to.
UpdaterApply(u, obj, s, fault) ==
    IF u
    THEN IF fault \/ ~Has(s[obj.kind], obj.name)
         THEN [s |-> s, verb |-> "update", ok |-> FALSE]
         ELSE [s |-> StorePut(s, obj), verb |-> "update", ok |-> TRUE]
    ELSE IF obj.name = ""
         THEN [s |-> s, verb |-> "", ok |-> TRUE]
    ELSE IF fault \/ Has(s[obj.kind], obj.name)
         THEN [s |-> s, verb |-> "create", ok |-> FALSE]
         ELSE [s |-> StorePut(s, obj), verb |-> "create", ok |-> TRUE]

\* an apply that writes only what changed
ChangedOnly(r) == r.origObject # r.Object

\* an apply that writes every resource
AlwaysApply(r) == TRUE

\* whether the resource is written: it changed since Create, or it has to be created
NeedsApply(r) == r.origObject # r.Object \/ ~r.Update

\* a status write made only after a main write
StatusIfWritten(r) == r.Status /\ NeedsApply(r)

\* if v.Resource.Status
WantsStatus(r) == r.Status

\* The write of the resource r staged at (ident, key), after the calls cs on the
\* server s.  The client call number failAt fails.
ApplyResource(ident, key, r, s, cs, failAt) ==
    LET a == IF NeedsApply(r)
             THEN UpdaterApply(r.Update, r.Object, s, Len(cs) + 1 = failAt)
             ELSE [s |-> s, verb |-> "", ok |-> TRUE]
        cs1 == IF a.verb = "" THEN cs
               ELSE Append(cs, Call(a.verb, r.Object.kind, r.Object.name, ident, key, a.ok))
        stOk == Len(cs1) + 1 # failAt /\ Has(a.s[r.Object.kind], r.Object.name)
    IN  IF Failed(a.ok) THEN [s |-> a.s, calls |-> cs1, err |-> TRUE]
        ELSE IF WantsStatus(r)
             THEN [s |-> a.s,
                   calls |-> Append(cs1, Call("status", r.Object.kind, r.Object.name,
                                              ident, key, stOk)),
                   err |-> Failed(stOk)]
        ELSE [s |-> a.s, calls |-> cs1, err |-> FALSE]

----------------------------------------------------------------------------
(* Update, Status, Get, List *)

\* a key that does not come from the object
FirstName(object) == "a"

getNamespacedNameFromRuntime(object) == object.name

\* an assignment that replaces the origObject as well
SetBoth(r, object) == [r EXCEPT !.Object = object, !.origObject = object]

\* o.data[resourceIdent][nn].Object = ...
SetObject(r, object) == [r EXCEPT !.Object = object]

\* Update(resourceIdent, object) on the cache data d and the server s
UpdateResult(d, s, resourceIdent, object, failAt) ==
    LET nn == getNamespacedNameFromRuntime(object)
        gvk == GetKindFromObj(resourceIdent.Type)
        obGVK == GetKindFromObj(object.kind)
        d1 == [d EXCEPT ![resourceIdent][nn] = SetObject(@, DeepCopyObject(object))]
        w == ApplyResource(resourceIdent, nn, d1[resourceIdent][nn], s, <<>>, failAt)
        res(err, dd, ss, c) == [err |-> err, data |-> dd, store |-> ss, calls |-> c]
    IN  IF ~Has(d, resourceIdent) THEN res("miss", d, s, <<>>)
        ELSE IF ~Has(d[resourceIdent], nn) THEN res("notfound", d, s, <<>>)
        ELSE IF gvk.err \/ obGVK.err THEN res("schema", d, s, <<>>)
        ELSE IF KindMismatch(gvk.gvk, obGVK.gvk) THEN res("mismatch", d, s, <<>>)
        ELSE IF GetWriteNow(resourceIdent)
             THEN res(IF w.err THEN "store" ELSE "", d1, w.s, w.calls)
        ELSE res("", d1, s, <<>>)

Update(resourceIdent, object, failAt) ==
    LET r == UpdateResult(data, store, resourceIdent, object, failAt)
    IN  /\ data' = r.data
        /\ store' = r.store
        /\ last' = Rec("Update", r.err)
        /\ UNCHANGED <<config, resourceTracker, possibleGVKs, ext>>

\* o.data[resourceIdent][nn].Status = true dereferences a nil pointer when nn is not
\* in the map: the call panics
StatusResult(d, resourceIdent, object) ==
    LET nn == getNamespacedNameFromRuntime(object)
    IN  IF ~Has(d, resourceIdent) THEN [err |-> "miss", data |-> d]
        ELSE IF ~Has(d[resourceIdent], nn) THEN [err |-> "panic", data |-> d]
        ELSE [err |-> "", data |-> [d EXCEPT ![resourceIdent][nn].Status = TRUE]]

Status(resourceIdent, object) ==
    LET r == StatusResult(data, resourceIdent, object)
    IN  /\ data' = r.data
        /\ last' = Rec("Status", r.err)
        /\ UNCHANGED <<config, resourceTracker, possibleGVKs, store, ext>>

\* a conversion that only sets the kind of the output object
ConvertKindOnly(in, outKind) == [err |-> FALSE, obj |-> [NoObject EXCEPT !.kind = outKind]]

\* scheme.Convert of a typed object into an object of type outKind, followed by
\* SetGroupVersionKind: a copy, or an error when the types differ
Convert(in, outKind) ==
    IF in.kind = outKind THEN [err |-> FALSE, obj |-> in] ELSE [err |-> TRUE, obj |-> NoObject]

\* Get(resourceIdent, object, nn...) with object of type outKind: keys is the
\* variadic nn, `pick` the entry the range over a ResourceIdentSingle's map visits last
GetResult(d, resourceIdent, outKind, keys, pick) ==
    LET out(k) == Convert(d[resourceIdent][k].Object, outKind)
        res(err, obj) == [err |-> err, obj |-> obj]
    IN  IF ~Has(d, resourceIdent) THEN res("miss", NoObject)
        ELSE IF Len(keys) > 1 THEN res("toomany", NoObject)
        ELSE IF ~resourceIdent.Multi
             THEN IF out(pick).err THEN res("convert", NoObject) ELSE res("", out(pick).obj)
        ELSE IF Len(keys) = 0 THEN res("panic", NoObject)
        ELSE IF ~Has(d[resourceIdent], keys[1]) THEN res("notfound", NoObject)
        ELSE IF out(keys[1]).err THEN res("convert", NoObject)
        ELSE res("", out(keys[1]).obj)

\* the entries the range of a Single identifier's map may visit last
Picks(d, resourceIdent) ==
    IF Has(d, resourceIdent) THEN DOMAIN d[resourceIdent] ELSE {""}

Get(resourceIdent, outKind, keys, pick) ==
    /\ pick \in Picks(data, resourceIdent)
    /\ last' = Rec("Get", GetResult(data, resourceIdent, outKind, keys, pick).err)
    /\ UNCHANGED <<config, data, resourceTracker, possibleGVKs, store, ext>>

\* the content of an unstructured.Unstructured: its fields by name
ToUnstructured(obj) ==
    <<<<"kind", obj.kind>>, <<"name", obj.name>>, <<"spec", obj.spec>>, <<"owner", obj.owner>>>>

Field(u, f) == u[CHOOSE m \in 1..Len(u) : u[m][1] = f][2]

\* runtime.DefaultUnstructuredConverter.FromUnstructured for one item of the list
FromUnstructured(u) ==
    [kind |-> Field(u, "kind"), name |-> Field(u, "name"),
     spec |-> Field(u, "spec"), owner |-> Field(u, "owner")]

\* a list that holds only the entry visited last
LastItem(items, uobj) == <<uobj>>

\* uList.Items = append(uList.Items, uobj)
AppendItem(items, uobj) == Append(items, uobj)

\* the range over oMap, visited in the order keys
RECURSIVE ListItems(_, _, _, _)
ListItems(oMap, keys, j, items) ==
    IF j > Len(keys) THEN items
    ELSE ListItems(oMap, keys, j + 1,
                   AppendItem(items, ToUnstructured(oMap[keys[j]].Object)))

\* the keys of o.data[resourceIdent], none for a nil map
ListKeys(d, resourceIdent) ==
    IF Has(d, resourceIdent) THEN DOMAIN d[resourceIdent] ELSE {}

\* List(resourceIdent, object) with object a list of the identifier's type; keys
\* is the order in which the range visits the map.  scheme.Convert fails for an
\* object whose type the scheme does not know.
ListResult(d, resourceIdent, keys) ==
    LET oMap == IF Has(d, resourceIdent) THEN d[resourceIdent] ELSE EmptyMap
        uList == ListItems(oMap, keys, 1, <<>>)
    IN  IF \E k \in DOMAIN oMap : GetKindFromObj(oMap[k].Object.kind).err
        THEN [err |-> "convert", items |-> <<>>]
        ELSE [err |-> "", items |-> [m \in 1..Len(uList) |-> FromUnstructured(uList[m])]]

List(resourceIdent, keys) ==
    /\ resourceIdent.Multi
    /\ keys \in Perms(ListKeys(data, resourceIdent))
    /\ last' = [Rec("List", ListResult(data, resourceIdent, keys).err)
                  EXCEPT !.ident = resourceIdent]
    /\ UNCHANGED <<config, data, resourceTracker, possibleGVKs, store, ext>>

----------------------------------------------------------------------------
(* ApplyAll *)

\* an index that tells no two names apart
SameIndex(elem, order) == 0

indexOf(elem, order) ==
    IF \E k \in 1..Len(order) : order[k] = elem
    THEN (CHOOSE k \in 1..Len(order) : order[k] = elem /\ \A j \in 1..(k - 1) : order[j] # elem) - 1
    ELSE -1

\* objectsToApply.Less on two (ident, key) pairs
Less(p, q, order) ==
    LET g1 == GetKindFromObj(p[1].Type)
        g2 == GetKindFromObj(q[1].Type)
        k1 == IF g1.err THEN "*" ELSE g1.gvk
        k2 == IF g2.err THEN "*" ELSE g2.gvk
    IN  indexOf(k1, order) < indexOf(k2, order)

\* a collection that holds every entry twice
EachTwice(d, order) == {f \o f : f \in Perms(Pairs(d))}

\* the entries as collected from the map, left unsorted
AnyOrder(d, order) == Perms(Pairs(d))

\* what sort.Sort may leave of the entries collected from the map: any arrangement
\* in which no later element is Less than an earlier one
SortedObjs(d, order) ==
    {f \in Perms(Pairs(d)) : \A i, j \in 1..Len(f) : i < j => ~Less(f[j], f[i], order)}

RECURSIVE applyResourceCache(_, _, _, _, _, _)
applyResourceCache(d, objs, i, s, cs, failAt) ==
    IF i > Len(objs) THEN [s |-> s, calls |-> cs, err |-> FALSE]
    ELSE IF GetWriteNow(objs[i][1]) THEN applyResourceCache(d, objs, i + 1, s, cs, failAt)
    ELSE LET w == ApplyResource(objs[i][1], objs[i][2], d[objs[i][1]][objs[i][2]],
                                s, cs, failAt)
         IN  IF w.err THEN w
             ELSE applyResourceCache(d, objs, i + 1, w.s, w.calls, failAt)

\* ApplyAll() with the sorted entries objs
ApplyAllResult(d, s, objs, failAt) == applyResourceCache(d, objs, 1, s, <<>>, failAt)

ApplyAll(objs, failAt) ==
    /\ objs \in SortedObjs(data, Ordering)
    /\ LET r == ApplyAllResult(data, store, objs, failAt)
       IN  /\ store' = r.s
           /\ last' = Rec("ApplyAll", IF r.err THEN "store" ELSE "")
    /\ UNCHANGED <<config, data, resourceTracker, possibleGVKs, ext>>

----------------------------------------------------------------------------
(* AddPossibleGVKFromIdent, Reconcile *)

AddPossibleResult(possible, obj) == possible \cup {GetKindFromObj(obj.Type).gvk}

AddPossibleGVKFromIdent(obj) ==
    /\ possibleGVKs' = AddPossibleResult(possibleGVKs, obj)
    /\ last' = Rec("AddPossibleGVKFromIdent", "")
    /\ UNCHANGED <<config, data, resourceTracker, store, ext>>

\* a Reconcile that skips no kind
NotProtected(gvk) == FALSE

\* if _, ok := o.config.protectedGVKs[gvk]; ok { continue }
Protected(gvk) == gvk \in protectedGVKs

\* a Reconcile that only cleans the kinds it has staged something of
UnwantedOfStagedKind(item, nn, v, ownedUID) == item.owner = ownedUID /\ nn \notin v /\ v # {}

\* a Reconcile that does not look at the owner references
Untracked(item, nn, v, ownedUID) == nn \notin v

\* a Reconcile that does not look at the resourceTracker
Owned(item, nn, v, ownedUID) == item.owner = ownedUID

\* a listed item is deleted: an owner reference has the UID, and nn is not in v
Unwanted(item, nn, v, ownedUID) == item.owner = ownedUID /\ nn \notin v

\* a Delete that writes the instance back without its owner instead
ClearOwner(s, gvk, nn) ==
    [s EXCEPT ![gvk] = MapSet(s[gvk], nn, [s[gvk][nn] EXCEPT !.owner = ""])]

\* o.client.Delete(o.ctx, &innerObj) when the server accepts it
DeleteInstance(s, gvk, nn) == [s EXCEPT ![gvk] = MapDel(@, nn)]

\* the deletes for the listed items[j..] of one kind; v is the kind's resourceTracker set
RECURSIVE ReconcileItems(_, _, _, _, _, _, _, _, _)
ReconcileItems(gvk, items, j, listed, v, ownedUID, s, cs, failAt) ==
    IF j > Len(items) THEN [s |-> s, calls |-> cs, err |-> FALSE]
    ELSE LET nn == items[j]
             del == Unwanted(listed[nn], nn, v, ownedUID)
             ok == Len(cs) + 1 # failAt /\ Has(s[gvk], nn)
         IN  IF ~del THEN ReconcileItems(gvk, items, j + 1, listed, v, ownedUID, s, cs, failAt)
             ELSE IF Failed(ok)
                  THEN [s |-> s, calls |-> Append(cs, Call("delete", gvk, nn, NoIdent, "", FALSE)),
                        err |-> TRUE]
             ELSE ReconcileItems(gvk, items, j + 1, listed, v, ownedUID,
                                 IF ok THEN DeleteInstance(s, gvk, nn) ELSE s,
                                 Append(cs, Call("delete", gvk, nn, NoIdent, "", ok)), failAt)

\* the loop over possibleGVKs, visited in the order gvks; opts are the names the
\* list options select, names the order in which a list returns its items
RECURSIVE ReconcileKinds(_, _, _, _, _, _, _, _, _)
ReconcileKinds(t, gvks, i, ownedUID, opts, names, s, cs, failAt) ==
    IF i > Len(gvks) THEN [s |-> s, calls |-> cs, err |-> FALSE]
    ELSE LET gvk == gvks[i]
             v == IF Has(t, gvk) THEN t[gvk] ELSE {}
             listOk == Len(cs) + 1 # failAt /\ gvk # EmptyGVK
             cs1 == Append(cs, Call("list", gvk, "", NoIdent, "", listOk))
             items == SelectSeq(names, LAMBDA x : x \in opts /\ Has(s[gvk], x))
             r == ReconcileItems(gvk, items, 1, s[gvk], v, ownedUID, s, cs1, failAt)
         IN  IF Protected(gvk)
             THEN ReconcileKinds(t, gvks, i + 1, ownedUID, opts, names, s, cs, failAt)
             ELSE IF Failed(listOk) THEN [s |-> s, calls |-> cs1, err |-> TRUE]
             ELSE IF r.err THEN r
             ELSE ReconcileKinds(t, gvks, i + 1, ownedUID, opts, names, r.s, r.calls, failAt)

\* a Reconcile that goes through every kind of the scheme
RangeAllKinds(possible) == Perms(Kinds)

\* for gvk := range o.config.possibleGVKs: the orders the range may take
RangeGVKs(possible) == Perms(possible)

\* Reconcile(ownedUID, opts...) with the range over possibleGVKs in the order gvks
ReconcileResult(t, s, ownedUID, opts, gvks, names, failAt) ==
    ReconcileKinds(t, gvks, 1, ownedUID, opts, names, s, <<>>, failAt)

Reconcile(ownedUID, opts, gvks, names, failAt) ==
    /\ gvks \in RangeGVKs(possibleGVKs)
    /\ names \in Perms(NamespacedNames)
    /\ LET r == ReconcileResult(resourceTracker, store, ownedUID, opts, gvks, names, failAt)
       IN  /\ store' = r.s
           /\ last' = [Rec("Reconcile", IF r.err THEN "store" ELSE "")
                         EXCEPT !.owner = ownedUID, !.opts = opts]
    /\ UNCHANGED <<config, data, resourceTracker, possibleGVKs, ext>>

----------------------------------------------------------------------------
(* Other clients of the API server *)

StoredValues == [spec : Specs, owner : UIDs]

External(kind, nn, exists, val) ==
    /\ ext < MaxExternal
    /\ store' = [store EXCEPT ![kind] = IF exists THEN MapSet(@, nn, val) ELSE MapDel(@, nn)]
    /\ store' # store
    /\ ext' = ext + 1
    /\ last' = Rec("External", "")
    /\ UNCHANGED <<config, data, resourceTracker, possibleGVKs>>

----------------------------------------------------------------------------
(* The cache after NewObjectCache, and the calls made on it *)

\* objects a caller builds: owned by the reconciled resource
CallerObjects == {o \in Objects : o.owner = "u1"}

\* the objects passed to Create: the server holds content 0, callers bring MaxSpec
NewObjects ==
    {o \in CallerObjects : o.spec = MaxSpec /\ (o.kind = EmptyGVK => o.name = "")}

\* an object of the identifier's own type
Typed(i, o) == o.kind = i.Type

\* the server when the pass starts: an instance named "a" of each kind, none named "b"
InitStore == [k \in Kinds |-> [x \in {"a"} |-> [spec |-> 0, owner |-> "u1"]]]

\* what another client writes
OtherValue == [spec |-> MaxSpec, owner |-> "u2"]

KeyLists == {<<>>} \cup {<<k>> : k \in NamespacedNames} \cup {<<"a", "b">>}

ListOpts == {{"a"}, NamespacedNames}

\* the client call that fails in an invocation; 0: none
FailPoints == 0..(2 * MaxStaged)

Init ==
    /\ data = EmptyMap
    /\ resourceTracker = [k \in Kinds |-> {}]
    /\ StrictGVK \in BOOLEAN
    /\ possibleGVKs \in IF StrictGVK THEN {{}, {"Service"}} ELSE {{}}
    /\ protectedGVKs \in {{}, {"Deployment"}}
    /\ Ordering \in Orderings
    /\ store = InitStore
    /\ last = Rec("NewObjectCache", "")
    /\ ext = 0

\* Staging: Create with every kind of argument, registration, and the reads
InitCreate == Init /\ protectedGVKs = {} /\ Ordering = DefaultOrdering

NextCreate ==
    \/ \E i \in Idents, nn \in NamespacedNames, o \in NewObjects, f \in BOOLEAN :
          Create(i, nn, o, f)
    \/ \E i \in Idents : AddPossibleGVKFromIdent(i)
    \/ \E i \in Idents, k \in Kinds, ks \in KeyLists :
          \E p \in Picks(data, i) : Get(i, k, ks, p)
    \/ \E i \in Idents : \E ks \in Perms(ListKeys(data, i)) : List(i, ks)

SpecCreate == InitCreate /\ [][NextCreate]_vars

\* A pass up to its ApplyAll: objects named as their key, no failing read
InitApply == Init /\ ~StrictGVK /\ protectedGVKs = {} /\ Ordering = DefaultOrdering

Named(nn, o) == o.name = nn

NextApply ==
    \/ \E i \in Idents, nn \in NamespacedNames, o \in NewObjects :
          Typed(i, o) /\ Named(nn, o) /\ Create(i, nn, o, FALSE)
    \/ \E i \in Idents, o \in CallerObjects, f \in 0..2 :
          Typed(i, o) /\ (f > 0 => i.WriteNow) /\ Update(i, o, f)
    \/ \E i \in Idents, o \in CallerObjects : Typed(i, o) /\ o.spec = 0 /\ Status(i, o)
    \/ \E objs \in SortedObjs(data, Ordering), f \in FailPoints : ApplyAll(objs, f)

SpecApply == InitApply /\ [][NextApply]_vars

\* A pass with its ApplyAll and its Reconcile, beside another client of the server
InitReconcile == Init /\ ~StrictGVK /\ Ordering = DefaultOrdering

NextReconcile ==
    \/ \E i \in {SingleIdent, DeployIdent}, nn \in NamespacedNames, o \in NewObjects :
          Typed(i, o) /\ Named(nn, o) /\ Create(i, nn, o, FALSE)
    \/ \E o \in NewObjects :
          Typed(SingleIdent, o) /\ Named("a", o)
             /\ (Update(SingleIdent, o, 0) \/ Status(SingleIdent, o))
    \/ \E i \in Idents : AddPossibleGVKFromIdent(i)
    \/ \E objs \in SortedObjs(data, Ordering) : ApplyAll(objs, 0)
    \/ \E u \in UIDs, opts \in ListOpts, gvks \in Perms(possibleGVKs),
          names \in Perms(NamespacedNames), f \in 0..2 :
          Reconcile(u, opts, gvks, names, f)
    \/ \E k \in Kinds, nn \in NamespacedNames, e \in BOOLEAN :
          External(k, nn, e, OtherValue)

SpecReconcile == InitReconcile /\ [][NextReconcile]_vars

----------------------------------------------------------------------------
(* Properties of ApplyAll (SpecApply) *)

TrailingKinds == {"Deployment", "Job", "CronJob"}

\* kinds an identifier's Type may have, the unresolvable one among them
IdentKinds == Kinds \cup {"Job", "CronJob", "ConfigMap", EmptyGVK}

\* an entry to sort whose identifier has the Type k
ToApply(k) == <<[Provider |-> "p", Type |-> k, WriteNow |-> FALSE, Multi |-> TRUE], "a">>

\* C1: with the default ordering, in every ApplyAll (whatever entries are staged,
\* whatever arrangement the sort leaves, wherever a client call fails) each write
\* of an entry whose identifier's kind is not Deployment, Job or CronJob comes
\* before each write of an entry whose kind is one of these; and Less puts every
\* entry of another kind (or of no resolvable kind) before every entry of
\* Deployment, Job or CronJob, never after.
C1_DependentKindsLast ==
    Ordering = DefaultOrdering =>
        /\ \A objs \in SortedObjs(data, Ordering), f \in FailPoints :
               LET cs == ApplyAllResult(data, store, objs, f).calls
               IN  \A m, n \in 1..Len(cs) :
                       (cs[m].ident.Type \notin TrailingKinds
                           /\ cs[n].ident.Type \in TrailingKinds) => m < n
        /\ \A k1 \in IdentKinds \ TrailingKinds, k2 \in TrailingKinds :
               /\ Less(ToApply(k1), ToApply(k2), Ordering)
               /\ ~Less(ToApply(k2), ToApply(k1), Ordering)

\* an ApplyAll has written a new Service and a new Deployment
C1_Witness ==
    /\ last = Rec("ApplyAll", "")
    /\ Ordering = DefaultOrdering
    /\ Staged(data, SingleIdent, "b") /\ Staged(data, DeployIdent, "b")
    /\ ~data[SingleIdent]["b"].Update /\ ~data[DeployIdent]["b"].Update
    /\ Has(store["Service"], "b") /\ Has(store["Deployment"], "b")

\* C2: no ApplyAll makes a create or update call for an entry whose Object equals
\* its origObject and which was found on the server when it was staged.
C2_UnchangedNotWritten ==
    \A objs \in SortedObjs(data, Ordering), f \in FailPoints :
        LET cs == ApplyAllResult(data, store, objs, f).calls
        IN  \A m \in 1..Len(cs) :
                cs[m].verb \in {"create", "update"} =>
                    LET e == data[cs[m].ident][cs[m].key]
                    IN  ~(e.Object = e.origObject /\ e.Update)

\* an ApplyAll has run over an unchanged entry that was found on the server, with a
\* status write requested
C2_Witness ==
    /\ last = Rec("ApplyAll", "")
    /\ Staged(data, SingleIdent, "a")
    /\ data[SingleIdent]["a"].Update
    /\ data[SingleIdent]["a"].Status
    /\ data[SingleIdent]["a"].Object = data[SingleIdent]["a"].origObject

----------------------------------------------------------------------------
(* Properties of Reconcile (SpecReconcile) *)

\* a client call of a Reconcile that fails; 0: none
ReconcileFailPoints == 0..(Cardinality(Kinds) * (1 + Cardinality(NamespacedNames)))

\* C3: after a Reconcile that returns no error, for every kind of possibleGVKs
\* that is not protected, no instance that the list returned, that is owned by
\* ownedUID and whose name is not in the kind's resourceTracker set is left on the
\* server; so for the kinds nothing was staged of.
C3_ReconcileDeletesUnwanted ==
    \A u \in UIDs, opts \in ListOpts, gvks \in Perms(possibleGVKs),
       names \in Perms(NamespacedNames), f \in ReconcileFailPoints :
        LET r == ReconcileResult(resourceTracker, store, u, opts, gvks, names, f)
        IN  ~r.err =>
                \A k \in (possibleGVKs \cap Kinds) \ protectedGVKs, nn \in opts :
                    (Has(store[k], nn) /\ store[k][nn].owner = u
                        /\ nn \notin resourceTracker[k])
                        => ~Has(r.s[k], nn)

\* a Reconcile has deleted the owned Service of a cache that staged no Service
C3_Witness ==
    /\ last.op = "Reconcile" /\ last.err = "" /\ last.owner = "u1" /\ "a" \in last.opts
    /\ "Service" \in possibleGVKs \ protectedGVKs
    /\ resourceTracker["Service"] = {}
    /\ ext = 0
    /\ ~Has(store["Service"], "a")

\* C4: no Reconcile lists or deletes an instance of a protected kind, whoever owns
\* the instances, whether or not the kind is in possibleGVKs, whatever the
\* resourceTracker holds.
C4_ProtectedUntouched ==
    \A u \in UIDs, opts \in ListOpts, gvks \in Perms(possibleGVKs),
       names \in Perms(NamespacedNames), f \in ReconcileFailPoints :
        LET r == ReconcileResult(resourceTracker, store, u, opts, gvks, names, f)
        IN  /\ \A m \in 1..Len(r.calls) : r.calls[m].kind \notin protectedGVKs
            /\ \A k \in protectedGVKs \cap Kinds : r.s[k] = store[k]

\* a Reconcile has deleted the owned, unstaged Service and left the owned, unstaged
\* Deployment, a protected kind of possibleGVKs
C4_Witness ==
    /\ last.op = "Reconcile" /\ last.err = "" /\ last.owner = "u1" /\ "a" \in last.opts
    /\ "Deployment" \in protectedGVKs \cap possibleGVKs
    /\ "Service" \in possibleGVKs
    /\ Has(store["Deployment"], "a") /\ store["Deployment"]["a"].owner = "u1"
    /\ "a" \notin resourceTracker["Deployment"]
    /\ ext = 0
    /\ ~Has(store["Service"], "a")

\* C5: no Reconcile deletes or changes an instance whose owner reference is not
\* ownedUID, whatever the list options and the resourceTracker.
C5_OnlyOwnedDeleted ==
    \A u \in UIDs, opts \in ListOpts, gvks \in Perms(possibleGVKs),
       names \in Perms(NamespacedNames), f \in ReconcileFailPoints :
        LET r == ReconcileResult(resourceTracker, store, u, opts, gvks, names, f)
        IN  \A k \in Kinds, nn \in NamespacedNames :
                (Has(store[k], nn) /\ store[k][nn].owner # u)
                    => Has(r.s[k], nn) /\ r.s[k][nn] = store[k][nn]

\* a Reconcile for u1 that listed both Services has deleted the one u1 owns and
\* left the untracked one that another client owns
C5_Witness ==
    /\ last.op = "Reconcile" /\ last.err = "" /\ last.owner = "u1"
    /\ last.opts = NamespacedNames
    /\ "Service" \in possibleGVKs \ protectedGVKs
    /\ Has(store["Service"], "b") /\ store["Service"]["b"].owner = "u2"
    /\ "b" \notin resourceTracker["Service"]
    /\ ~Has(store["Service"], "a")

\* C6: every staged (identifier, key) is in the resourceTracker set of the
\* identifier's kind, and no Reconcile deletes an instance whose name is in the
\* resourceTracker set of its kind, whatever Update, Status, ApplyAll and Reconcile
\* calls were made since the Create.
C6_TrackedKept ==
    /\ \A p \in Pairs(data) : p[2] \in resourceTracker[p[1].Type]
    /\ \A u \in UIDs, opts \in ListOpts, gvks \in Perms(possibleGVKs),
          names \in Perms(NamespacedNames), f \in ReconcileFailPoints :
           LET r == ReconcileResult(resourceTracker, store, u, opts, gvks, names, f)
           IN  \A k \in Kinds : \A nn \in resourceTracker[k] :
                   Has(store[k], nn) => Has(r.s[k], nn) /\ r.s[k][nn] = store[k][nn]

\* a Reconcile for u1 has left the staged and since updated Service that u1 owns,
\* and deleted the Deployment that was not staged
C6_Witness ==
    /\ last.op = "Reconcile" /\ last.err = "" /\ last.owner = "u1" /\ "a" \in last.opts
    /\ Staged(data, SingleIdent, "a")
    /\ data[SingleIdent]["a"].Object # data[SingleIdent]["a"].origObject
    /\ data[SingleIdent]["a"].Status
    /\ {"Service", "Deployment"} \subseteq possibleGVKs \ protectedGVKs
    /\ Has(store["Service"], "a") /\ store["Service"]["a"].owner = "u1"
    /\ ext = 0
    /\ ~Has(store["Deployment"], "a")

----------------------------------------------------------------------------
(* Properties of Create (SpecCreate) *)

\* C7: in strict mode a Create of an object whose kind is not in possibleGVKs
\* returns an error and leaves data, resourceTracker and possibleGVKs as they
\* were; after AddPossibleGVKFromIdent for the identifier, the same Create (an
\* object of the identifier's type, a pair not yet staged, a read that does not
\* fail) returns no error and stages the entry.
C7_StrictCreate ==
    StrictGVK =>
        \A i \in Idents, nn \in NamespacedNames, o \in CallerObjects, f \in BOOLEAN :
            LET r == CreateResult(data, resourceTracker, possibleGVKs, store, i, nn, o, f)
                r2 == CreateResult(data, resourceTracker, AddPossibleResult(possibleGVKs, i),
                                   store, i, nn, o, f)
            IN  o.kind \notin possibleGVKs =>
                    /\ r.err \in {"unregistered", "schema"}
                    /\ r.data = data
                    /\ r.tracker = resourceTracker
                    /\ r.possible = possibleGVKs
                    /\ (Typed(i, o) /\ ~Staged(data, i, nn) /\ ~f)
                           => r2.err = "" /\ Staged(r2.data, i, nn)

\* in strict mode a Create of a Service was refused, in a cache that holds a
\* Deployment staged after the kind was added
C7_Witness ==
    /\ StrictGVK
    /\ last = Rec("Create", "unregistered")
    /\ "Service" \notin possibleGVKs
    /\ "Deployment" \in possibleGVKs
    /\ Staged(data, DeployIdent, "b")

\* C8 as stated: a Create for a pair that is already staged returns the duplicate
\* error and leaves the entry as it is.
C8_Original ==
    \A i \in Idents, nn \in NamespacedNames, o \in CallerObjects, f \in BOOLEAN :
        LET r == CreateResult(data, resourceTracker, possibleGVKs, store, i, nn, o, f)
        IN  Staged(data, i, nn) => r.err = "duplicate" /\ r.data = data

\* C8: a Create for a pair that is already staged returns an error and leaves
\* data and resourceTracker as they are; the error is the duplicate error when the
\* strict-mode check passes and the read of the instance does not fail, the two
\* steps that come before the look-up.
C8_SecondCreate ==
    \A i \in Idents, nn \in NamespacedNames, o \in CallerObjects, f \in BOOLEAN :
        LET r == CreateResult(data, resourceTracker, possibleGVKs, store, i, nn, o, f)
        IN  Staged(data, i, nn) =>
                /\ r.err # ""
                /\ r.data = data
                /\ r.tracker = resourceTracker
                /\ ((StrictGVK => o.kind \in possibleGVKs) /\ o.kind \in Kinds /\ ~f)
                       => r.err = "duplicate"

\* a Create was refused as a duplicate
C8_Witness ==
    /\ last = Rec("Create", "duplicate")
    /\ Pairs(data) # {}

KeysFor(i, nn) == IF i.Multi THEN <<nn>> ELSE <<>>

\* C10 as stated: after a Create that returned no error, a Get on the identifier
\* (with the key for a Multi identifier) returns the object passed to Create,
\* whether or not the server holds an instance at the key.
C10_Original ==
    \A i \in Idents, nn \in NamespacedNames, o \in CallerObjects, f \in BOOLEAN :
        LET r == CreateResult(data, resourceTracker, possibleGVKs, store, i, nn, o, f)
        IN  r.err = "" =>
                \A p \in Picks(r.data, i) :
                    LET g == GetResult(r.data, i, i.Type, KeysFor(i, nn), p)
                    IN  g.err = "" /\ g.obj = o

\* C10: after a Create that returned no error, a Get on a Multi identifier with
\* the key, or on a Single identifier that has this one entry, returns the object
\* as Create left it to the caller: the object passed when the server holds no
\* instance at the key, the server's instance when it holds one.
C10_CreateThenGet ==
    \A i \in Idents, nn \in NamespacedNames, o \in CallerObjects, f \in BOOLEAN :
        LET r == CreateResult(data, resourceTracker, possibleGVKs, store, i, nn, o, f)
            found == Has(store[i.Type], nn)
        IN  (r.err = "" /\ (i.Multi \/ DOMAIN r.data[i] = {nn})) =>
                \A p \in Picks(r.data, i) :
                    LET g == GetResult(r.data, i, i.Type, KeysFor(i, nn), p)
                    IN  /\ g.err = ""
                        /\ g.obj = r.obj
                        /\ ~found => g.obj = o
                        /\ found => g.obj = StoreGet(store, i.Type, nn)

\* a Get has returned an entry that Create read from the server
C10_Witness ==
    /\ last = Rec("Get", "")
    /\ Staged(data, MultiIdent, "a")
    /\ data[MultiIdent]["a"].Update
    /\ data[MultiIdent]["a"].Object = StoreGet(store, "Service", "a")
    /\ data[MultiIdent]["a"].Object.spec # MaxSpec

----------------------------------------------------------------------------
(* Properties of Update (SpecApply) *)

\* the client call of an Update that fails; 0: none
UpdateFailPoints == 0..2

\* what Get returns for the entry at (i, nn), for every entry the range of a
\* Single identifier's map may visit last
GetsOf(d, i, nn) == {GetResult(d, i, i.Type, KeysFor(i, nn), p) : p \in Picks(d, i)}

\* C11 as stated: after an Update that returned no error, a Get on the identifier
\* and key returns the object passed, and keeps returning it after any call that
\* is not an Update of that entry returning no error.
C11_Original ==
    \A i \in Idents, o \in CallerObjects, f \in UpdateFailPoints :
        LET r == UpdateResult(data, store, i, o, f)
        IN  r.err = "" =>
                /\ \A g \in GetsOf(r.data, i, o.name) : g.err = "" /\ g.obj = o
                /\ \A i2 \in Idents, o2 \in CallerObjects, f2 \in UpdateFailPoints :
                       LET r2 == UpdateResult(r.data, r.store, i2, o2, f2)
                       IN  r2.err # "" =>
                               \A g \in GetsOf(r2.data, i, o.name) : g.err = "" /\ g.obj = o

\* C11: after an Update that returned no error, a Get on a Multi identifier with
\* the key, or on a Single identifier that has this one entry, returns the object
\* passed; the entry keeps that object through every Create, every Status and
\* every Update except an Update of that entry that passes Update's checks, be it
\* one whose write to the server then fails.
C11_ReadYourWrites ==
    /\ \A i \in Idents, o \in CallerObjects, f \in UpdateFailPoints :
           LET r == UpdateResult(data, store, i, o, f)
           IN  r.err = "" =>
                   /\ (i.Multi \/ DOMAIN r.data[i] = {o.name}) =>
                          \A g \in GetsOf(r.data, i, o.name) : g.err = "" /\ g.obj = o
                   /\ r.data[i][o.name].Object = o
    /\ \A i2 \in Idents, o2 \in CallerObjects, f2 \in UpdateFailPoints :
           LET r2 == UpdateResult(data, store, i2, o2, f2)
           IN  \A p \in Pairs(data) :
                   (i2 # p[1] \/ o2.name # p[2] \/ r2.err \notin {"", "store"})
                       => r2.data[p[1]][p[2]].Object = data[p[1]][p[2]].Object
    /\ \A i2 \in Idents, o2 \in CallerObjects :
           LET r2 == StatusResult(data, i2, o2)
           IN  \A p \in Pairs(data) :
                   r2.data[p[1]][p[2]].Object = data[p[1]][p[2]].Object
    /\ \A i2 \in Idents, n2 \in NamespacedNames, o2 \in CallerObjects, f2 \in BOOLEAN :
           LET r2 == CreateResult(data, resourceTracker, possibleGVKs, store, i2, n2, o2, f2)
           IN  \A p \in Pairs(data) :
                   r2.data[p[1]][p[2]].Object = data[p[1]][p[2]].Object

\* an Update has replaced the object of an entry that Create read from the server
C11_Witness ==
    /\ last = Rec("Update", "")
    /\ Staged(data, MultiIdent, "a")
    /\ data[MultiIdent]["a"].Update
    /\ data[MultiIdent]["a"].Object.spec = MaxSpec
    /\ data[MultiIdent]["a"].origObject.spec = 0

\* C12: an Update returns an error, changes no entry and calls the server not at
\* all when the identifier has no entry, when the identifier has no entry at the
\* object's own name, or when the object's kind is not the kind of the
\* identifier's Type.
C12_UpdateRefused ==
    \A i \in Idents, o \in CallerObjects, f \in UpdateFailPoints :
        LET r == UpdateResult(data, store, i, o, f)
        IN  /\ ~Has(data, i) => r.err = "miss"
            /\ (Has(data, i) /\ ~Has(data[i], o.name)) => r.err = "notfound"
            /\ (Staged(data, i, o.name) /\ o.kind # i.Type) => r.err \in {"mismatch", "schema"}
            /\ (~Staged(data, i, o.name) \/ o.kind # i.Type) =>
                   r.err # "" /\ r.data = data /\ r.store = store /\ r.calls = <<>>

\* an Update was refused for an object named as no entry of the identifier, in
\* a cache that holds another entry of the identifier
C12_Witness ==
    /\ last = Rec("Update", "notfound")
    /\ Has(data, SingleIdent)
    /\ data[SingleIdent]["a"].Object = data[SingleIdent]["a"].origObject

----------------------------------------------------------------------------
(* Properties of the order of ApplyAll (SpecOrder) *)

\* A pass under any Ordering: entries staged, then ApplyAll
InitOrder == Init /\ ~StrictGVK /\ protectedGVKs = {}

NextOrder ==
    \/ \E i \in Idents, nn \in NamespacedNames, o \in NewObjects :
          Typed(i, o) /\ Named(nn, o) /\ Create(i, nn, o, FALSE)
    \/ \E objs \in SortedObjs(data, Ordering), f \in FailPoints : ApplyAll(objs, f)

SpecOrder == InitOrder /\ [][NextOrder]_vars

\* the kind is one of the names of the Ordering
Listed(kind, order) == \E k \in 1..Len(order) : order[k] = kind

\* the place of a name in the Ordering, given that it is there
Place(name, order) == CHOOSE k \in 1..Len(order) : order[k] = name

\* C13: under any Ordering, the writes of an entry whose kind is not in the
\* Ordering come after the writes of every entry whose kind is listed before "*"
\* and before the writes of every entry whose kind is listed after "*".
C13_UnlistedAtWildcard ==
    \A objs \in SortedObjs(data, Ordering), f \in FailPoints :
        LET cs == ApplyAllResult(data, store, objs, f).calls
        IN  \A m, n \in 1..Len(cs) :
                (~Listed(cs[m].ident.Type, Ordering) /\ Listed(cs[n].ident.Type, Ordering))
                    => /\ Place(cs[n].ident.Type, Ordering) < Place("*", Ordering) => n < m
                       /\ Place(cs[n].ident.Type, Ordering) > Place("*", Ordering) => m < n

\* C14: under any Ordering, the entries ApplyAll goes through are all the staged
\* entries, each once, and neither in that sequence nor among the writes does an
\* entry whose kind is listed at a smaller index come after an entry whose kind
\* is listed at a larger index.
C14_SortedByOrdering ==
    \A objs \in SortedObjs(data, Ordering), f \in FailPoints :
        LET cs == ApplyAllResult(data, store, objs, f).calls
        IN  /\ Len(objs) = Cardinality(Pairs(data))
            /\ {objs[m] : m \in 1..Len(objs)} = Pairs(data)
            /\ \A m, n \in 1..Len(objs) :
                   (Listed(objs[m][1].Type, Ordering) /\ Listed(objs[n][1].Type, Ordering)
                       /\ Place(objs[m][1].Type, Ordering) < Place(objs[n][1].Type, Ordering))
                       => m < n
            /\ \A m, n \in 1..Len(cs) :
                   (Listed(cs[m].ident.Type, Ordering) /\ Listed(cs[n].ident.Type, Ordering)
                       /\ Place(cs[m].ident.Type, Ordering) < Place(cs[n].ident.Type, Ordering))
                       => m < n

\* under the Ordering Service, *, Deployment an ApplyAll has written a new
\* Service and a new Deployment
C14_Witness ==
    /\ last = Rec("ApplyAll", "")
    /\ Ordering = CustomOrdering
    /\ Staged(data, MultiIdent, "b") /\ Staged(data, DeployIdent, "b")
    /\ Has(store["Service"], "b") /\ Has(store["Deployment"], "b")

----------------------------------------------------------------------------
(* Properties of what ApplyAll writes (SpecWrite) *)

\* A pass whose objects need not be named as their key, nor named at all
InitWrite == Init /\ ~StrictGVK /\ protectedGVKs = {} /\ Ordering = DefaultOrdering

NextWrite ==
    \/ \E i \in Idents, nn \in NamespacedNames, o \in NewObjects :
          Typed(i, o) /\ Create(i, nn, o, FALSE)
    \/ \E i \in Idents, o \in CallerObjects : Typed(i, o) /\ Update(i, o, 0)
    \/ \E objs \in SortedObjs(data, Ordering), f \in FailPoints : ApplyAll(objs, f)
    \/ \E i \in Idents : \E ks \in Perms(ListKeys(data, i)) : List(i, ks)

SpecWrite == InitWrite /\ [][NextWrite]_vars

\* the calls with the verb made for the entry at (i, nn)
CallsFor(cs, i, nn, verb) ==
    Cardinality({m \in 1..Len(cs) : cs[m].ident = i /\ cs[m].key = nn /\ cs[m].verb = verb})

\* the non-immediate entries an ApplyAll has to write: changed since Create, or
\* not found on the server by Create
Written(d) ==
    {p \in Pairs(d) : ~p[1].WriteNow
                        /\ (d[p[1]][p[2]].Object # d[p[1]][p[2]].origObject
                               \/ ~d[p[1]][p[2]].Update)}

Holds(s, obj) ==
    /\ obj.kind \in Kinds
    /\ Has(s[obj.kind], obj.name)
    /\ StoreGet(s, obj.kind, obj.name) = obj

\* C18 as stated: after an ApplyAll that returns no error the server holds, for
\* every entry of every identifier, immediate or not, an instance equal to the
\* entry's Object.
C18_Original ==
    \A objs \in SortedObjs(data, Ordering), f \in FailPoints :
        LET r == ApplyAllResult(data, store, objs, f)
        IN  ~r.err => \A p \in Pairs(data) : Holds(r.s, data[p[1]][p[2]].Object)

\* C18: after an ApplyAll that returns no error the server holds an instance
\* equal to the Object of every non-immediate entry that was changed since Create
\* or not found by Create, whose object has a name, and whose kind and name no
\* other such entry has.
C18_WrittenOut ==
    \A objs \in SortedObjs(data, Ordering), f \in FailPoints :
        LET r == ApplyAllResult(data, store, objs, f)
        IN  ~r.err =>
                \A p \in Written(data) :
                    LET obj == data[p[1]][p[2]].Object
                    IN  (/\ obj.name # ""
                         /\ \A q \in Written(data) \ {p} :
                                LET other == data[q[1]][q[2]].Object
                                IN  other.kind # obj.kind \/ other.name # obj.name)
                            => Holds(r.s, obj)

\* an ApplyAll has returned no error, having created the new Deployment and left
\* alone the new Service staged under the immediate identifier
C18_Witness ==
    /\ last = Rec("ApplyAll", "")
    /\ Staged(data, DeployIdent, "b") /\ Staged(data, NowIdent, "b")
    /\ ~data[DeployIdent]["b"].Update
    /\ Holds(store, data[DeployIdent]["b"].Object)
    /\ ~data[NowIdent]["b"].Update
    /\ data[NowIdent]["b"].Object.name = "b"
    /\ ~Has(store["Service"], "b")

----------------------------------------------------------------------------
(* Properties of immediate identifiers and of status writes (SpecApply) *)

\* C16: no ApplyAll makes a client call, be it create, update or status write,
\* for an entry staged under an identifier with WriteNow.
C16_ImmediateSkipped ==
    \A objs \in SortedObjs(data, Ordering), f \in FailPoints :
        LET r == ApplyAllResult(data, store, objs, f)
        IN  /\ \A m \in 1..Len(r.calls) : ~r.calls[m].ident.WriteNow
            /\ (\A p \in Pairs(data) : p[1].WriteNow) => r.s = store /\ ~r.err

\* an ApplyAll has run over an entry of the immediate identifier that is new,
\* has a status write requested and is not on the server
C16_Witness ==
    /\ last = Rec("ApplyAll", "")
    /\ Staged(data, NowIdent, "b")
    /\ ~data[NowIdent]["b"].Update
    /\ data[NowIdent]["b"].Status
    /\ ~Has(store["Service"], "b")

\* C17: an Update that passes its checks, on an identifier with WriteNow, makes
\* its client call before it returns: a create when Create did not find the
\* entry on the server, an update when it did and the object differs from
\* origObject, and no create or update otherwise; it returns an error exactly
\* when a call failed.  An Update on an identifier without WriteNow makes no
\* client call.
C17_WriteThrough ==
    \A i \in Idents, o \in CallerObjects, f \in UpdateFailPoints :
        LET r == UpdateResult(data, store, i, o, f)
        IN  (Staged(data, i, o.name) /\ o.kind = i.Type) =>
                LET e == data[i][o.name]
                    main == {m \in 1..Len(r.calls) : r.calls[m].verb \in {"create", "update"}}
                IN  IF i.WriteNow
                    THEN /\ (o # e.origObject \/ ~e.Update) =>
                                /\ main = {1}
                                /\ r.calls[1].verb = (IF e.Update THEN "update" ELSE "create")
                                /\ r.calls[1].kind = o.kind /\ r.calls[1].name = o.name
                                /\ r.calls[1].ok => Holds(r.store, o)
                         /\ (o = e.origObject /\ e.Update) => main = {}
                         /\ r.err = "" <=> \A m \in 1..Len(r.calls) : r.calls[m].ok
                         /\ r.err \in {"", "store"}
                    ELSE r.calls = <<>> /\ r.store = store /\ r.err = ""

\* an Update on the immediate identifier has created the new Service
C17_Witness ==
    /\ last = Rec("Update", "")
    /\ Staged(data, NowIdent, "b")
    /\ ~data[NowIdent]["b"].Update
    /\ Holds(store, data[NowIdent]["b"].Object)

\* the place of the entry in the sorted entries
PlaceIn(objs, i, nn) == CHOOSE m \in 1..Len(objs) : objs[m] = <<i, nn>>

\* C20: an ApplyAll makes status writes only for entries with Status set; when it
\* returns no error it has made exactly one for every such non-immediate entry,
\* written or skipped; a main write that succeeds for such an entry is followed at
\* once by the entry's status write; and the calls come in the order of the
\* entries, so that an entry's status write precedes every call for a later entry.
C20_StatusWrite ==
    \A objs \in SortedObjs(data, Ordering), f \in FailPoints :
        LET r == ApplyAllResult(data, store, objs, f)
            cs == r.calls
        IN  /\ \A m \in 1..Len(cs) :
                   /\ cs[m].verb = "status" => data[cs[m].ident][cs[m].key].Status
                   /\ (cs[m].verb # "status" /\ cs[m].ok /\ data[cs[m].ident][cs[m].key].Status)
                          => /\ m < Len(cs)
                             /\ cs[m + 1].verb = "status"
                             /\ cs[m + 1].ident = cs[m].ident /\ cs[m + 1].key = cs[m].key
            /\ \A m, n \in 1..Len(cs) :
                   m < n => \/ PlaceIn(objs, cs[m].ident, cs[m].key)
                                < PlaceIn(objs, cs[n].ident, cs[n].key)
                            \/ /\ cs[m].ident = cs[n].ident /\ cs[m].key = cs[n].key
                               /\ cs[m].verb # "status" /\ cs[n].verb = "status"
            /\ ~r.err =>
                   \A p \in Pairs(data) :
                       (~p[1].WriteNow /\ data[p[1]][p[2]].Status)
                           => CallsFor(cs, p[1], p[2], "status") = 1

\* an ApplyAll has returned no error over two entries with a status write
\* requested: a new one, which it created, and an unchanged one found on the
\* server, which it did not write
C20_Witness ==
    /\ last = Rec("ApplyAll", "")
    /\ Staged(data, MultiIdent, "b") /\ Staged(data, MultiIdent, "a")
    /\ ~data[MultiIdent]["b"].Update /\ data[MultiIdent]["b"].Status
    /\ Holds(store, data[MultiIdent]["b"].Object)
    /\ data[MultiIdent]["a"].Update /\ data[MultiIdent]["a"].Status
    /\ data[MultiIdent]["a"].Object = data[MultiIdent]["a"].origObject

----------------------------------------------------------------------------
(* Properties of errors in ApplyAll and Reconcile (SpecReconcile) *)

\* the calls end with the first one that fails, and the error is returned then
\* and only then
StopsAtError(cs, err) ==
    /\ \A m \in 1..Len(cs) : ~cs[m].ok => m = Len(cs)
    /\ err <=> (Len(cs) > 0 /\ ~cs[Len(cs)].ok)

\* C19: an ApplyAll and a Reconcile make no client call after one that fails and
\* return an error exactly when one failed.  The calls of an ApplyAll before the
\* failing one are those of the sorted order, and what they wrote is on the server
\* afterwards; what a Reconcile deleted before the failing call is gone, and every
\* other instance is as it was.
C19_StopAtFirstError ==
    /\ \A objs \in SortedObjs(data, Ordering), f \in FailPoints :
           LET r == ApplyAllResult(data, store, objs, f)
               r0 == ApplyAllResult(data, store, objs, 0)
               cs == r.calls
           IN  /\ StopsAtError(cs, r.err)
               /\ Len(cs) <= Len(r0.calls)
               /\ \A m \in 1..(Len(cs) - 1) : cs[m] = r0.calls[m]
               /\ \A m \in 1..Len(cs) :
                      (/\ cs[m].ok /\ cs[m].verb \in {"create", "update"}
                       /\ \A n \in (m + 1)..Len(cs) :
                              ~(cs[n].ok /\ cs[n].verb \in {"create", "update"}
                                  /\ cs[n].kind = cs[m].kind /\ cs[n].name = cs[m].name))
                          => Holds(r.s, data[cs[m].ident][cs[m].key].Object)
    /\ \A u \in UIDs, opts \in ListOpts, gvks \in Perms(possibleGVKs),
          names \in Perms(NamespacedNames), f \in ReconcileFailPoints :
           LET r == ReconcileResult(resourceTracker, store, u, opts, gvks, names, f)
               cs == r.calls
               deleted(k, nn) == \E m \in 1..Len(cs) :
                                     /\ cs[m].ok /\ cs[m].verb = "delete"
                                     /\ cs[m].kind = k /\ cs[m].name = nn
           IN  /\ StopsAtError(cs, r.err)
               /\ \A k \in Kinds, nn \in NamespacedNames :
                      IF deleted(k, nn)
                      THEN ~Has(r.s[k], nn)
                      ELSE Has(r.s[k], nn) = Has(store[k], nn)
                              /\ (Has(store[k], nn) => r.s[k][nn] = store[k][nn])

\* an ApplyAll has returned an error at the create of the Deployment, which
\* another client had written, after it created the Service, which is on the
\* server
C19_Witness ==
    /\ last = Rec("ApplyAll", "store")
    /\ Staged(data, SingleIdent, "b") /\ Staged(data, DeployIdent, "b")
    /\ ~data[SingleIdent]["b"].Update /\ ~data[DeployIdent]["b"].Update
    /\ Holds(store, data[SingleIdent]["b"].Object)
    /\ Has(store["Deployment"], "b")
    /\ store["Deployment"]["b"] = OtherValue

----------------------------------------------------------------------------
(* Properties of List (SpecWrite) *)

\* C21: a List on a Multi identifier returns no error and a collection with one
\* element for each entry staged under the identifier, equal to the entry's
\* Object, whatever the order in which the map is visited; for an identifier
\* that has no entry, one never passed to Create among them, the collection is
\* empty.
C21_ListReturnsEntries ==
    \A i \in Idents :
        i.Multi =>
            \A ks \in Perms(ListKeys(data, i)) :
                LET r == ListResult(data, i, ks)
                IN  /\ r.err = ""
                    /\ Len(r.items) = Cardinality(ListKeys(data, i))
                    /\ \A m \in 1..Len(r.items) : r.items[m] = data[i][ks[m]].Object
                    /\ ~Has(data, i) => r.items = <<>>

\* a List has run on a Multi identifier with two entries, one of them updated
\* since Create, while another Multi identifier has no entry
C21_Witness ==
    /\ last.op = "List" /\ last.err = "" /\ last.ident = MultiIdent
    /\ Staged(data, MultiIdent, "a") /\ Staged(data, MultiIdent, "b")
    /\ data[MultiIdent]["a"].Object # data[MultiIdent]["a"].origObject
    /\ ~Has(data, DeployIdent)

----------------------------------------------------------------------------
(* Properties of the staging store (SpecCreate) *)

\* C22: an identifier that is not Multi has at most one entry, and a Get on it
\* returns the same whatever entry the range over its map visits last.
C22_SingleHasOneEntry ==
    \A i \in Idents :
        (~i.Multi /\ Has(data, i)) =>
            /\ Cardinality(DOMAIN data[i]) <= 1
            /\ \A p, q \in Picks(data, i) :
                   GetResult(data, i, i.Type, <<>>, p) = GetResult(data, i, i.Type, <<>>, q)

----------------------------------------------------------------------------
(* Properties of Status and Get on what is not staged (SpecApply) *)

\* the errors that tell the caller the identifier or the instance is not staged
CacheMiss == {"miss", "notfound"}

\* C23: a Status for an object whose name has no entry under the identifier, be
\* the identifier one with entries or one with none, returns the cache-miss
\* error and leaves every entry as it is.
C23_StatusMiss ==
    \A i \in Idents, o \in CallerObjects :
        LET r == StatusResult(data, i, o)
        IN  ~Staged(data, i, o.name) => r.err \in CacheMiss /\ r.data = data

\* the errors a Get returns to its caller
GetErrors == {"miss", "toomany", "notfound", "convert"}

\* C24: a Get on an identifier with no entry, a Get with more than one key, a Get
\* on a Multi identifier with a key that is not staged and a Get on a Multi
\* identifier with no key each return an error and no object.
C24_InvalidGet ==
    \A i \in Idents, k \in Kinds, ks \in KeyLists :
        \A p \in Picks(data, i) :
            LET g == GetResult(data, i, k, ks, p)
            IN  (\/ ~Has(data, i)
                 \/ Len(ks) > 1
                 \/ i.Multi /\ Len(ks) = 1 /\ ~Staged(data, i, ks[1])
                 \/ i.Multi /\ Len(ks) = 0)
                    => g.err \in GetErrors /\ g.obj = NoObject

----------------------------------------------------------------------------
(* Properties of repeated immediate writes (SpecApply) *)

\* the create and update calls among cs
MainWrites(cs) == {m \in 1..Len(cs) : cs[m].verb \in {"create", "update"}}

\* C25: on an identifier with WriteNow, when an Update has returned no error and
\* written the entry, a second Update of that entry with an object that differs
\* from origObject, made next and with no failing client, returns no error and
\* makes exactly one create or update call, whether or not Create found the
\* entry on the server.
C25_SecondWrite ==
    \A i \in Idents, o1 \in CallerObjects, o2 \in CallerObjects :
        LET r1 == UpdateResult(data, store, i, o1, 0)
            r2 == UpdateResult(r1.data, r1.store, i, o2, 0)
        IN  (/\ i.WriteNow /\ o2.name = o1.name
             /\ r1.err = "" /\ MainWrites(r1.calls) # {}
             /\ o2.kind = i.Type /\ o2 # data[i][o1.name].origObject)
                => r2.err = "" /\ Cardinality(MainWrites(r2.calls)) = 1

----------------------------------------------------------------------------
(* Properties of the references callers hold (SpecCopy) *)

\* Staging and reading back: Create, Update and Get
InitCopy == Init /\ ~StrictGVK /\ protectedGVKs = {} /\ Ordering = DefaultOrdering

NextCopy ==
    \/ \E i \in Idents, nn \in NamespacedNames, o \in NewObjects :
          Typed(i, o) /\ Named(nn, o) /\ Create(i, nn, o, FALSE)
    \/ \E i \in Idents, o \in CallerObjects : Typed(i, o) /\ Update(i, o, 0)
    \/ \E i \in Idents, k \in Kinds, ks \in KeyLists :
          \E p \in Picks(data, i) : Get(i, k, ks, p)

SpecCopy == InitCopy /\ [][NextCopy]_vars

\* The objects in memory are a sequence mem, a reference is an index into it.
\* The caller's object is at CallerRef; the Object and the origObject of the
\* staged entries follow, in the order Placed.
CallerRef == 1

Placed(d) == CHOOSE f \in Perms(Pairs(d)) : TRUE

Memory(d, object) ==
    LET ps == Placed(d)
    IN  [m \in 1..(1 + 2 * Len(ps)) |->
            IF m = CallerRef THEN object
            ELSE IF m % 2 = 0 THEN d[ps[m \div 2][1]][ps[m \div 2][2]].Object
            ELSE d[ps[(m - 1) \div 2][1]][ps[(m - 1) \div 2][2]].origObject]

\* the references the staged entries hold
Refs(d) ==
    LET ps == Placed(d)
        at(p) == CHOOSE m \in 1..Len(ps) : ps[m] = p
    IN  [p \in Pairs(d) |-> [Object |-> 2 * at(p), origObject |-> 2 * at(p) + 1]]

\* a cache that keeps the reference it is given
SameReference(mem, a) == [mem |-> mem, ref |-> a]

\* object.DeepCopyObject(): a new object with the content of the object at a
NewCopy(mem, a) == [mem |-> Append(mem, mem[a]), ref |-> Len(mem) + 1]

\* o.data[resourceIdent][nn] = &k8sResource{Object: copy, origObject: copy}
CreateRefs(mem, refs, p, a) ==
    LET c1 == NewCopy(mem, a)
        c2 == NewCopy(c1.mem, a)
    IN  [mem |-> c2.mem,
         refs |-> MapSet(refs, p, [Object |-> c1.ref, origObject |-> c2.ref])]

\* o.data[resourceIdent][nn].Object = copy
UpdateRefs(mem, refs, p, a) ==
    LET c == NewCopy(mem, a)
    IN  [mem |-> c.mem, refs |-> [refs EXCEPT ![p].Object = c.ref]]

\* o.scheme.Convert(v.Object, object): the content of the entry's Object, written
\* into the caller's object
GetInto(mem, refs, p, a, outKind) ==
    [mem EXCEPT ![a] = Convert(mem[refs[p].Object], outKind).obj]

\* the caller assigns to the object it holds
Mutate(mem, a, v) == [mem EXCEPT ![a] = v]

\* what the entries hold, read through their references
Deref(mem, refs) ==
    [p \in DOMAIN refs |->
        [Object |-> mem[refs[p].Object], origObject |-> mem[refs[p].origObject]]]

Contents(d) ==
    [p \in Pairs(d) |->
        [Object |-> d[p[1]][p[2]].Object, origObject |-> d[p[1]][p[2]].origObject]]

\* C26: whatever a caller assigns to the object it passed to a Create or an
\* Update that staged it, or to the object a Get filled, the Object and the
\* origObject of every entry stay what the call left them.
C26_NoLiveReference ==
    /\ \A i \in Idents, nn \in NamespacedNames, o \in CallerObjects :
           LET r == CreateResult(data, resourceTracker, possibleGVKs, store, i, nn, o, FALSE)
               c == CreateRefs(Memory(data, r.obj), Refs(data), <<i, nn>>, CallerRef)
           IN  r.err = "" =>
                   \A v \in CallerObjects :
                       Deref(Mutate(c.mem, CallerRef, v), c.refs) = Contents(r.data)
    /\ \A i \in Idents, o \in CallerObjects, f \in UpdateFailPoints :
           LET r == UpdateResult(data, store, i, o, f)
               c == UpdateRefs(Memory(data, o), Refs(data), <<i, o.name>>, CallerRef)
           IN  r.err \in {"", "store"} =>
                   \A v \in CallerObjects :
                       Deref(Mutate(c.mem, CallerRef, v), c.refs) = Contents(r.data)
    /\ \A i \in Idents, nn \in NamespacedNames :
           \A pk \in Picks(data, i) :
               LET g == GetResult(data, i, i.Type, KeysFor(i, nn), pk)
                   key == IF i.Multi THEN nn ELSE pk
                   mem == GetInto(Memory(data, NoObject), Refs(data), <<i, key>>,
                                  CallerRef, i.Type)
               IN  g.err = "" =>
                       /\ mem[CallerRef] = g.obj
                       /\ \A v \in CallerObjects :
                              Deref(Mutate(mem, CallerRef, v), Refs(data)) = Contents(data)

\* a Get has filled an object from an entry that an Update changed after Create
\* staged it from the server
C26_Witness ==
    /\ last = Rec("Get", "")
    /\ Staged(data, MultiIdent, "a")
    /\ data[MultiIdent]["a"].Update
    /\ data[MultiIdent]["a"].Object # data[MultiIdent]["a"].origObject

----------------------------------------------------------------------------
(* Properties of the kinds staged (SpecCreate) *)

\* C27: in strict mode and out of it, every kind with a non-empty
\* resourceTracker set is in possibleGVKs, now and after any Create; a Create
\* that returns no error out of strict mode has added the kind of its object
\* to possibleGVKs, and one in strict mode has found it there.
C27_StagedKindsAllowed ==
    /\ \A k \in Kinds : resourceTracker[k] # {} => k \in possibleGVKs
    /\ \A i \in Idents, nn \in NamespacedNames, o \in CallerObjects, f \in BOOLEAN :
           LET r == CreateResult(data, resourceTracker, possibleGVKs, store, i, nn, o, f)
           IN  /\ \A k \in Kinds : r.tracker[k] # {} => k \in r.possible
               /\ r.err = "" =>
                      /\ o.kind \in r.possible
                      /\ nn \in r.tracker[o.kind]
                      /\ StrictGVK => o.kind \in possibleGVKs
                      /\ ~StrictGVK => r.possible = possibleGVKs \cup {o.kind}

\* out of strict mode, with no kind added by the caller, a Service and a
\* Deployment have been staged
C27_Witness ==
    /\ ~StrictGVK
    /\ last = Rec("Create", "")
    /\ resourceTracker["Service"] # {} /\ resourceTracker["Deployment"] # {}
    /\ possibleGVKs = Kinds

----------------------------------------------------------------------------
(* Properties of the read that opens Create (SpecCreate) *)

\* C28: after a Create that returns no error, when the server held an instance
\* at the key the entry's Object and origObject both are that instance, not the
\* object the caller passed, and its Update flag is set; when the server held
\* none, both are the object the caller passed and the flag is not set.
C28_StagedFromRead ==
    \A i \in Idents, nn \in NamespacedNames, o \in CallerObjects, f \in BOOLEAN :
        LET r == CreateResult(data, resourceTracker, possibleGVKs, store, i, nn, o, f)
            e == r.data[i][nn]
        IN  r.err = "" =>
                IF Has(store[o.kind], nn)
                THEN /\ e.Object = StoreGet(store, o.kind, nn)
                     /\ e.origObject = StoreGet(store, o.kind, nn)
                     /\ e.Update
                ELSE /\ e.Object = o
                     /\ e.origObject = o
                     /\ ~e.Update

\* two Creates have returned no error: one staged the server's instance in place
\* of the caller's object, the other staged the caller's object
C28_Witness ==
    /\ last = Rec("Create", "")
    /\ Staged(data, MultiIdent, "a") /\ Staged(data, MultiIdent, "b")
    /\ data[MultiIdent]["a"].Update
    /\ data[MultiIdent]["a"].Object = StoreGet(store, "Service", "a")
    /\ data[MultiIdent]["a"].Object.spec # MaxSpec
    /\ ~data[MultiIdent]["b"].Update
    /\ data[MultiIdent]["b"].Object.spec = MaxSpec
    /\ data[MultiIdent]["b"].origObject = data[MultiIdent]["b"].Object

\* C29: a Create whose read of the server fails, other than by finding no
\* instance, returns the read error and leaves data and resourceTracker as they
\* were; a Create whose read finds no instance does not return the read error.
C29_ReadError ==
    \A i \in Idents, nn \in NamespacedNames, o \in CallerObjects, f \in BOOLEAN :
        LET r == CreateResult(data, resourceTracker, possibleGVKs, store, i, nn, o, f)
            passed == StrictCheck(possibleGVKs, o.kind) = ""
        IN  /\ (passed /\ f) =>
                   r.err = "read" /\ r.data = data /\ r.tracker = resourceTracker
            /\ (passed /\ ~f /\ o.kind \in Kinds /\ ~Has(store[o.kind], nn)) =>
                   r.err # "read"

\* a Create has returned the error of its read, in a cache that holds an entry
C29_Witness ==
    /\ last = Rec("Create", "read")
    /\ Cardinality(Pairs(data)) = 1

----------------------------------------------------------------------------
(* Properties of origObject (SpecApply) *)

\* C30: no call removes an entry or changes the origObject that Create gave it:
\* not an Update, be it one that writes through at once or one whose client
\* call fails, not a Status, not an ApplyAll, not a further Create.
C30_BaselineKept ==
    [][\A p \in Pairs(data) :
           /\ Staged(data', p[1], p[2])
           /\ data'[p[1]][p[2]].origObject = data[p[1]][p[2]].origObject]_vars

\* an ApplyAll has written the changed object of an entry, whose origObject is
\* still the instance Create read from the server
C30_Witness ==
    /\ last = Rec("ApplyAll", "")
    /\ Staged(data, MultiIdent, "a")
    /\ data[MultiIdent]["a"].Status
    /\ data[MultiIdent]["a"].Object.spec = MaxSpec
    /\ Holds(store, data[MultiIdent]["a"].Object)
    /\ data[MultiIdent]["a"].origObject = StoreGet(InitStore, "Service", "a")

----------------------------------------------------------------------------
(* Properties of the cache over a whole pass (SpecReconcile) *)

\* C31: no call unstages a pair or takes a name out of a resourceTracker set:
\* through every Create, Update, Status, ApplyAll and Reconcile, and every change
\* another client makes on the server, the staged pairs and the resourceTracker
\* sets only grow.
C31_NeverUnstaged ==
    [][/\ Pairs(data) \subseteq Pairs(data')
       /\ \A k \in Kinds : resourceTracker[k] \subseteq resourceTracker'[k]]_vars

\* a Reconcile has run on a cache that holds two Services, both still staged and
\* tracked
C31_Witness ==
    /\ last.op = "Reconcile"
    /\ Pairs(data) = {<<SingleIdent, "a">>, <<SingleIdent, "b">>}
    /\ resourceTracker["Service"] = NamespacedNames

\* C32: a Reconcile lists and deletes instances of no kind but those in
\* possibleGVKs when it is called, and the instances of every other kind are
\* after it what they were before; and possibleGVKs, empty in a new cache out of
\* strict mode, changes in no call but a Create or an AddPossibleGVKFromIdent.
C32_OnlyAllowedKinds ==
    /\ [](\A u \in UIDs, opts \in ListOpts, gvks \in RangeGVKs(possibleGVKs),
             names \in Perms(NamespacedNames), f \in ReconcileFailPoints :
              LET r == ReconcileResult(resourceTracker, store, u, opts, gvks, names, f)
              IN  /\ \A m \in 1..Len(r.calls) : r.calls[m].kind \in possibleGVKs
                  /\ \A k \in Kinds \ possibleGVKs : r.s[k] = store[k])
    /\ [][possibleGVKs' # possibleGVKs
              => last'.op \in {"Create", "AddPossibleGVKFromIdent"}]_vars

\* a Reconcile for u1 has deleted the unstaged Service that u1 owns and left the
\* unstaged Deployment that u1 owns, Deployment being no kind of possibleGVKs
C32_Witness ==
    /\ last.op = "Reconcile" /\ last.err = "" /\ last.owner = "u1" /\ "a" \in last.opts
    /\ possibleGVKs = {"Service"}
    /\ protectedGVKs = {}
    /\ resourceTracker["Deployment"] = {}
    /\ Has(store["Deployment"], "a") /\ store["Deployment"]["a"].owner = "u1"
    /\ ext = 0
    /\ ~Has(store["Service"], "a")

\* the server after another client has written or deleted one instance, or none
ChangedStores(s) ==
    {s} \cup {[s EXCEPT ![k] = MapSet(@, nn, OtherValue)] : k \in Kinds, nn \in NamespacedNames}
        \cup {[s EXCEPT ![k] = MapDel(@, nn)] : k \in Kinds, nn \in NamespacedNames}

\* C33: whatever another client has written or deleted on the server since the
\* Create, an ApplyAll makes a create or update call for an entry only if its
\* Object differs from its origObject or Create did not find it, an update call
\* if Create found it and a create call if not; when it returns no error it has
\* made that one call for every such entry and none for the others; and where no
\* entry was written, the instance is after the ApplyAll what the other client
\* left.
C33_DecidedAtCreate ==
    \A objs \in SortedObjs(data, Ordering), s2 \in ChangedStores(store) :
        LET r == ApplyAllResult(data, s2, objs, 0)
            cs == r.calls
        IN  /\ \A m \in MainWrites(cs) :
                   LET e == data[cs[m].ident][cs[m].key]
                   IN  /\ e.Object # e.origObject \/ ~e.Update
                       /\ cs[m].verb = (IF e.Update THEN "update" ELSE "create")
            /\ ~r.err =>
                   \A p \in Pairs(data) :
                       LET e == data[p[1]][p[2]]
                       IN  ~p[1].WriteNow =>
                               CallsFor(cs, p[1], p[2], "create")
                                   + CallsFor(cs, p[1], p[2], "update")
                                   = (IF e.Object # e.origObject \/ ~e.Update THEN 1 ELSE 0)
            /\ \A k \in Kinds, nn \in NamespacedNames :
                   (\A m \in MainWrites(cs) : ~(cs[m].ok /\ cs[m].kind = k /\ cs[m].name = nn))
                       => /\ Has(r.s[k], nn) = Has(s2[k], nn)
                          /\ Has(s2[k], nn) => r.s[k][nn] = s2[k][nn]

\* an ApplyAll has returned no error and left alone the Service that another
\* client changed after the Create, whose entry is as Create read it
C33_Witness ==
    /\ last = Rec("ApplyAll", "")
    /\ ext = MaxExternal
    /\ Staged(data, SingleIdent, "a")
    /\ data[SingleIdent]["a"].Update
    /\ data[SingleIdent]["a"].Object = data[SingleIdent]["a"].origObject
    /\ Has(store["Service"], "a") /\ store["Service"]["a"] = OtherValue

----------------------------------------------------------------------------
(* Properties of resourceTracker (SpecCreate) *)

\* C34: a name is in the resourceTracker set of a kind exactly when an
\* identifier whose Type is of that kind has an entry at that name; so now, and
\* so after any Create, whatever it returns.
C34_TrackerMatchesData ==
    LET Matches(d, t) ==
            \A k \in Kinds, nn \in NamespacedNames :
                nn \in t[k] <=> \E i \in Idents : i.Type = k /\ Staged(d, i, nn)
    IN  /\ Matches(data, resourceTracker)
        /\ \A i \in Idents, nn \in NamespacedNames, o \in CallerObjects, f \in BOOLEAN :
               LET r == CreateResult(data, resourceTracker, possibleGVKs, store, i, nn, o, f)
               IN  Matches(r.data, r.tracker)

\* two identifiers of the kind Service hold an entry at the same name, the one
\* name tracked, and a Create has since been refused
C34_Witness ==
    /\ last.op = "Create" /\ last.err # ""
    /\ Pairs(data) = {<<SingleIdent, "a">>, <<MultiIdent, "a">>}
    /\ resourceTracker["Service"] = {"a"}
    /\ resourceTracker["Deployment"] = {}

----------------------------------------------------------------------------
(* Properties of a Reconcile after the writes (SpecKeys) *)

\* a server that holds no instance
EmptyStore == [k \in Kinds |-> EmptyMap]

\* A first pass, on a server that holds nothing yet: objects staged at any key,
\* then ApplyAll, then Reconcile
InitKeys ==
    /\ data = EmptyMap
    /\ resourceTracker = [k \in Kinds |-> {}]
    /\ StrictGVK = FALSE
    /\ possibleGVKs = {}
    /\ protectedGVKs = {}
    /\ Ordering = DefaultOrdering
    /\ store = EmptyStore
    /\ last = Rec("NewObjectCache", "")
    /\ ext = 0

NextKeys ==
    \/ \E i \in Idents, nn \in NamespacedNames, o \in NewObjects :
          Typed(i, o) /\ Create(i, nn, o, FALSE)
    \/ \E objs \in SortedObjs(data, Ordering) : ApplyAll(objs, 0)
    \/ \E u \in UIDs, opts \in ListOpts, gvks \in RangeGVKs(possibleGVKs),
          names \in Perms(NamespacedNames) :
          Reconcile(u, opts, gvks, names, 0)

SpecKeys == InitKeys /\ [][NextKeys]_vars

\* C35: every instance that an ApplyAll has created or updated on the server is
\* still there after a Reconcile made next on the same cache, whoever the owner
\* passed and whatever the list selects, also for an entry whose object is not
\* named as the key it was staged at.
C35_WrittenSurvives ==
    \A objs \in SortedObjs(data, Ordering) :
        LET r == ApplyAllResult(data, store, objs, 0)
        IN  \A m \in MainWrites(r.calls) :
                r.calls[m].ok =>
                    \A u \in UIDs, opts \in ListOpts, gvks \in RangeGVKs(possibleGVKs),
                       names \in Perms(NamespacedNames) :
                        LET rr == ReconcileResult(resourceTracker, r.s, u, opts, gvks, names, 0)
                        IN  Has(rr.s[r.calls[m].kind], r.calls[m].name)

----------------------------------------------------------------------------
(* Properties of the writes to one instance (SpecWrite) *)

\* the create and update calls among cs for the instance of the kind and name
WritesTo(cs, kind, name) ==
    {m \in MainWrites(cs) : cs[m].kind = kind /\ cs[m].name = name}

\* the entries ApplyAll goes through whose object has the kind and name
EntriesFor(d, kind, name) ==
    {p \in Pairs(d) : /\ ~GetWriteNow(p[1])
                      /\ d[p[1]][p[2]].Object.kind = kind
                      /\ d[p[1]][p[2]].Object.name = name}

\* C36 as stated: an ApplyAll makes at most one create or update call for any
\* one kind and name, whatever identifiers are staged.
C36_Original ==
    \A objs \in SortedObjs(data, Ordering), f \in FailPoints :
        LET cs == ApplyAllResult(data, store, objs, f).calls
        IN  \A k \in Kinds, n \in NamespacedNames :
                Cardinality(WritesTo(cs, k, n)) <= 1

\* C36: an ApplyAll makes at most one create or update call for any one entry,
\* and so for one kind and name no more such calls than there are entries whose
\* object has that kind and name; two identifiers of a kind staged at one key
\* get a call each.
C36_OneWritePerStagedEntry ==
    \A objs \in SortedObjs(data, Ordering), f \in FailPoints :
        LET cs == ApplyAllResult(data, store, objs, f).calls
        IN  /\ \A p \in Pairs(data) :
                   CallsFor(cs, p[1], p[2], "create") + CallsFor(cs, p[1], p[2], "update") <= 1
            /\ \A k \in Kinds, n \in NamespacedNames :
                   Cardinality(WritesTo(cs, k, n)) <= Cardinality(EntriesFor(data, k, n))

\* an ApplyAll has returned no error after it wrote the changed entries of two
\* identifiers of the kind Service, both staged at the key a
C36_Witness ==
    /\ last = Rec("ApplyAll", "")
    /\ Staged(data, SingleIdent, "a") /\ Staged(data, MultiIdent, "a")
    /\ data[SingleIdent]["a"].Object # data[SingleIdent]["a"].origObject
    /\ data[MultiIdent]["a"].Object # data[MultiIdent]["a"].origObject
    /\ data[SingleIdent]["a"].Object.name = "a"
    /\ data[MultiIdent]["a"].Object.name = "a"
    /\ Holds(store, data[MultiIdent]["a"].Object)

----------------------------------------------------------------------------
(* Properties of possibleGVKs after a refused Create (SpecCreate) *)

\* C37 as stated: a Create that returns an error leaves possibleGVKs as it was,
\* in strict mode and out of it.
C37_Original ==
    \A i \in Idents, nn \in NamespacedNames, o \in CallerObjects, f \in BOOLEAN :
        LET r == CreateResult(data, resourceTracker, possibleGVKs, store, i, nn, o, f)
        IN  r.err # "" => r.possible = possibleGVKs

\* C37: in strict mode a Create, whatever it returns, leaves possibleGVKs as it
\* was; out of strict mode a Create that returns an error (of the read, for a
\* duplicate, for the kind of the object) has added the kind of its object to
\* possibleGVKs all the same, and nothing else.
C37_RefusedCreateKinds ==
    \A i \in Idents, nn \in NamespacedNames, o \in CallerObjects, f \in BOOLEAN :
        LET r == CreateResult(data, resourceTracker, possibleGVKs, store, i, nn, o, f)
        IN  /\ StrictGVK => r.possible = possibleGVKs
            /\ (~StrictGVK /\ r.err # "") =>
                   /\ r.possible = possibleGVKs \cup {GetKindFromObj(o.kind).gvk}
                   /\ r.data = data
                   /\ r.tracker = resourceTracker

\* out of strict mode the one call made, a Create of a Deployment under an
\* identifier for Services, was refused, and Deployment is in possibleGVKs
C37_Witness ==
    /\ ~StrictGVK
    /\ last = Rec("Create", "mismatch")
    /\ Pairs(data) = {}
    /\ possibleGVKs = {"Deployment"}

----------------------------------------------------------------------------
(* Properties of a repeated ApplyAll (SpecWrite) *)

\* C38 as stated: an ApplyAll made next after an ApplyAll that returned no
\* error returns no error and leaves the server as the first left it.
C38_Original ==
    \A objs \in SortedObjs(data, Ordering), objs2 \in SortedObjs(data, Ordering) :
        LET r1 == ApplyAllResult(data, store, objs, 0)
            r2 == ApplyAllResult(data, r1.s, objs2, 0)
        IN  ~r1.err => ~r2.err /\ r2.s = r1.s

\* no two entries that ApplyAll writes have objects of the same kind and name
DistinctTargets(d) ==
    \A p, q \in Written(d) :
        (d[p[1]][p[2]].Object.kind = d[q[1]][q[2]].Object.kind
            /\ d[p[1]][p[2]].Object.name = d[q[1]][q[2]].Object.name) => p = q

\* C38: an ApplyAll made next after an ApplyAll that returned no error returns
\* an error exactly when some non-immediate entry was not found by Create and
\* has a named object, which it tries to create once more; it leaves the server
\* as the first left it when no two entries written share a kind and name.
C38_SecondApplyAll ==
    \A objs \in SortedObjs(data, Ordering), objs2 \in SortedObjs(data, Ordering) :
        LET r1 == ApplyAllResult(data, store, objs, 0)
            r2 == ApplyAllResult(data, r1.s, objs2, 0)
        IN  ~r1.err =>
                /\ r2.err <=> \E p \in Pairs(data) :
                                  /\ ~p[1].WriteNow
                                  /\ ~data[p[1]][p[2]].Update
                                  /\ data[p[1]][p[2]].Object.name # ""
                /\ DistinctTargets(data) => r2.s = r1.s

\* a second ApplyAll has returned an error for the one entry staged, a
\* Deployment that Create did not find and that is on the server since the first
C38_Witness ==
    /\ last = Rec("ApplyAll", "store")
    /\ Pairs(data) = {<<DeployIdent, "b">>}
    /\ ~data[DeployIdent]["b"].Update
    /\ ~data[DeployIdent]["b"].Status
    /\ Holds(store, data[DeployIdent]["b"].Object)

----------------------------------------------------------------------------
(* The frame of Reconcile (SpecReconcile) *)

\* C39: Reconcile makes only list and delete calls, so that no instance of the
\* server is created or changed by it, and a step of Reconcile leaves data,
\* resourceTracker, possibleGVKs and protectedGVKs as they were, with or without
\* an error.
C39_ReconcileFrame ==
    /\ [](\A u \in UIDs, opts \in ListOpts, gvks \in RangeGVKs(possibleGVKs),
             names \in Perms(NamespacedNames), f \in ReconcileFailPoints :
              LET r == ReconcileResult(resourceTracker, store, u, opts, gvks, names, f)
              IN  /\ \A m \in 1..Len(r.calls) : r.calls[m].verb \in {"list", "delete"}
                  /\ \A k \in Kinds : \A nn \in DOMAIN r.s[k] :
                         Has(store[k], nn) /\ r.s[k][nn] = store[k][nn])
    /\ [][last'.op = "Reconcile"
             => UNCHANGED <<data, resourceTracker, possibleGVKs, protectedGVKs>>]_vars

\* a Reconcile has returned an error with an entry staged and tracked, after
\* the Service a of the server was deleted
C39_Witness ==
    /\ last.op = "Reconcile" /\ last.err = "store" /\ last.owner = "u1"
    /\ Staged(data, SingleIdent, "b")
    /\ "b" \in resourceTracker["Service"]
    /\ ~Has(store["Service"], "a")
    /\ Has(store["Deployment"], "a")

====
